---- MODULE Spec2Model ----
(***************************************************************************)
(* FIRE Tax + FI Planner (src/streamlit_app.py).                           *)
(*                                                                         *)
(* The Streamlit script is modelled as a state machine: the widget values  *)
(* are the inputs, a click on "Run / Update FIRE Simulation" starts a run  *)
(* (taxes, cash flow, portfolio build, FI targets), the projection loop    *)
(* advances one simulated year per step, and the finished run is stored in *)
(* st.session_state["sim"].  A session is a sequence of script runs: each  *)
(* starts with fresh locals and keeps the stored result.                   *)
(*                                                                         *)
(* Numbers.  Python floats are modelled as exact rationals <<n, d>> in     *)
(* lowest terms with d > 0, so every product, quotient and comparison of   *)
(* the code is computed as written, without rounding.  Python None is the  *)
(* empty tuple <<>>.  A value that may be None and is not a rational (an   *)
(* int, a dict) is wrapped as <<v>>.                                       *)
(***************************************************************************)
EXTENDS Integers, Sequences, FiniteSets, TLC

VARIABLES
    \* ---- one call of the pure helper calculate_tax (specification SpecTax)
    call_pc,            \* "idle" | "args" | "returned"
    call_taxable,       \* argument taxable_income (whole dollars)
    call_brackets,      \* argument brackets: sequence of <<start, rate>>
    call_tax            \* returned tax, None before the call returns

VARIABLES
    \* ---- one call of the pure helper normalize_return (specification SpecNorm)
    norm_pc,            \* "idle" | "args" | "returned" | "raised"
    norm_arg,           \* argument r: None, a number, or <<a string>>
    norm_result         \* returned value, None before the call returns

VARIABLES
    \* ---- widget values (the inputs of a script run)
    filing_status,          \* "Single" | "Married Filing Jointly"
    gross_salary,           \* int, dollars
    pension_percent,        \* the slider's int; the rate is pension_percent / 100
    annual_expenses,        \* int, dollars
    swr_percent,            \* float, percent
    inflation_percent,      \* float, percent
    current_age,
    target_age,
    sim_until_age,
    contributions,          \* dict: enabled account -> int dollars per year
    hints,                  \* dict: hint name -> int dollars
    account_start_balances, \* dict: chosen account -> float dollars
    account_returns,        \* dict: account -> float (the widget's percent / 100)
    current_investments,    \* int, dollars
    other_return            \* float (the widget's percent / 100)

VARIABLES
    \* ---- the locals of the "if clicked:" block
    pc,                     \* "idle" | "loop" | "shown" | "stopped" | "raised"
                            \* | "viewed" (a script run ended without a click)
    error_msg,              \* the text of st.error, None while none is shown
    agi, taxable_income, federal_tax, state_tax, total_tax,
    pension_contribution, after_tax_income, post_tax_savings,
    disposable_income, warn_msgs,
    portfolio,              \* dict: account -> [balance, return]
    annual_contribs,        \* dict: account -> dollars per year
    account_history,        \* dict: account -> list of balances
    milestone_defs,         \* list of <<name, target>>
    milestone_eta,          \* dict: name -> None or decimal years
    sim_years,
    year,                   \* the loop variable; 0 before the first iteration
    years, balances,        \* lists: the year numbers, the totals
    prev_total, total_balance,
    snapshot_at_ret, full_fi_first_year, snapshot_full_fi,
    snapshot_5yr, snapshot_10yr

VARIABLES
    \* ---- st.session_state["sim"]: None, or <<the stored result record>>
    sim

callVars == <<call_pc, call_taxable, call_brackets, call_tax>>
normVars == <<norm_pc, norm_arg, norm_result>>

inputVars == <<filing_status, gross_salary, pension_percent, annual_expenses,
               swr_percent, inflation_percent, current_age, target_age,
               sim_until_age, contributions, hints, account_start_balances,
               account_returns, current_investments, other_return>>

taxVars == <<error_msg, agi, taxable_income, federal_tax, state_tax, total_tax,
             pension_contribution, after_tax_income, post_tax_savings,
             disposable_income, warn_msgs>>

loopVars == <<portfolio, annual_contribs, account_history, milestone_defs,
              milestone_eta, sim_years, year, years, balances, prev_total,
              total_balance, snapshot_at_ret, full_fi_first_year,
              snapshot_full_fi, snapshot_5yr, snapshot_10yr>>

vars == <<callVars, normVars, inputVars, pc, taxVars, loopVars, sim>>

\* ------------------------------------------------------------ Python values
None == <<>>
Some(v) == <<v>>
IsNone(v) == v = <<>>

\* ------------------------------------------------------------ exact numbers
Abs(k) == IF k < 0 THEN -k ELSE k

RECURSIVE GCD(_, _)
GCD(a, b) == IF b = 0 THEN a ELSE GCD(b, a % b)

\* the rational n/d (d # 0) in lowest terms with a positive denominator
Rat(n, d) ==
    LET s == IF d < 0 THEN -1 ELSE 1
        g == GCD(Abs(n), Abs(d))
    IN  <<(s * n) \div g, (s * d) \div g>>

R(k) == <<k, 1>>
Zero == <<0, 1>>
One == <<1, 1>>

RatAdd(a, b) ==
    LET g == GCD(a[2], b[2])
    IN  Rat(a[1] * (b[2] \div g) + b[1] * (a[2] \div g), (a[2] \div g) * b[2])

RatNeg(a) == <<-a[1], a[2]>>
RatSub(a, b) == RatAdd(a, RatNeg(b))

RatMul(a, b) ==
    LET g1 == GCD(Abs(a[1]), b[2])
        g2 == GCD(Abs(b[1]), a[2])
    IN  IF a[1] = 0 \/ b[1] = 0 THEN Zero
        ELSE <<(a[1] \div g1) * (b[1] \div g2), (a[2] \div g2) * (b[2] \div g1)>>

\* a / b for b # 0
RatDiv(a, b) == RatMul(a, Rat(b[2], b[1]))

Floor(a) == a[1] \div a[2]

\* a < b; the integer parts decide when they differ, so that a comparison
\* against a very small or very large number needs no large product
RatLess(a, b) ==
    LET fa == Floor(a)
        fb == Floor(b)
    IN  IF fa # fb THEN fa < fb
        ELSE (a[1] - fa * a[2]) * b[2] < (b[1] - fb * b[2]) * a[2]

RatLeq(a, b) == a = b \/ RatLess(a, b)
RatMax(a, b) == IF RatLess(a, b) THEN b ELSE a
RatMin(a, b) == IF RatLess(b, a) THEN b ELSE a

RECURSIVE RatPow(_, _)
RatPow(a, k) == IF k <= 0 THEN One ELSE RatMul(a, RatPow(a, k - 1))

RECURSIVE RatSum(_)
RatSum(s) == IF s = <<>> THEN Zero ELSE RatAdd(s[1], RatSum(Tail(s)))

\* Python's float('inf') as a bracket end: larger than every income modelled
Infinity == <<2147483647, 1>>

\* ------------------------------------------------------------ tax settings
FEDERAL_BRACKETS_2025_SINGLE ==
    << <<0, Rat(10, 100)>>, <<11925, Rat(12, 100)>>, <<48475, Rat(22, 100)>>,
       <<103350, Rat(24, 100)>>, <<197300, Rat(32, 100)>>,
       <<250525, Rat(35, 100)>>, <<626350, Rat(37, 100)>> >>

FEDERAL_BRACKETS_2025_MARRIED ==
    << <<0, Rat(10, 100)>>, <<23850, Rat(12, 100)>>, <<96950, Rat(22, 100)>>,
       <<206700, Rat(24, 100)>>, <<394600, Rat(32, 100)>>,
       <<501050, Rat(35, 100)>>, <<752600, Rat(37, 100)>> >>

VIRGINIA_BRACKETS_2025 ==
    << <<0, Rat(2, 100)>>, <<3000, Rat(3, 100)>>, <<5000, Rat(5, 100)>>,
       <<17000, Rat(575, 10000)>> >>

STANDARD_DEDUCTION_2025_SINGLE == 15000
STANDARD_DEDUCTION_2025_MARRIED == 30000

\* ------------------------------------------------------------ calculate_tax
\* the end of bracket i: the next bracket's start, or float('inf')
BracketEnd(brackets, i) ==
    IF i + 1 <= Len(brackets) THEN R(brackets[i + 1][1]) ELSE Infinity

\* the for loop of calculate_tax from bracket i on, with the tax so far
RECURSIVE TaxLoop(_, _, _, _)
TaxLoop(taxable, brackets, i, tax) ==
    IF i > Len(brackets) THEN tax
    ELSE LET start == R(brackets[i][1])
             rate == brackets[i][2]
             end == BracketEnd(brackets, i)
         IN  IF RatLeq(taxable, start) THEN tax                  \* break
             ELSE LET span == RatSub(RatMin(taxable, end), start)
                  IN  TaxLoop(taxable, brackets, i + 1,
                              IF RatLess(Zero, span)
                              THEN RatAdd(tax, RatMul(span, rate))
                              ELSE tax)

\* a mutant of calculate_tax: every bracket taxes the whole income above its
\* start (the span is not cut at the next bracket's start)
calculate_tax_uncut(taxable, brackets) ==
    IF RatLeq(taxable, Zero) THEN Zero
    ELSE RatSum([i \in 1..Len(brackets) |->
            IF RatLess(R(brackets[i][1]), taxable)
            THEN RatMul(RatSub(taxable, R(brackets[i][1])), brackets[i][2])
            ELSE Zero])

\* a mutant of calculate_tax: "tax = span * rate" for "tax += span * rate", so
\* only the last slice reached is taxed
calculate_tax_last_slice(taxable, brackets) ==
    LET reached == {i \in 1..Len(brackets) : RatLess(R(brackets[i][1]), taxable)}
        top == CHOOSE i \in reached : \A j \in reached : j <= i
    IN  IF RatLeq(taxable, Zero) \/ reached = {} THEN Zero
        ELSE RatMul(RatSub(RatMin(taxable, BracketEnd(brackets, top)),
                           R(brackets[top][1])),
                    brackets[top][2])

\* a mutant of calculate_tax: the whole income is taxed at the rate of the
\* bracket it falls in
calculate_tax_cliff(taxable, brackets) ==
    LET reached == {i \in 1..Len(brackets) : RatLess(R(brackets[i][1]), taxable)}
        top == CHOOSE i \in reached : \A j \in reached : j <= i
    IN  IF RatLeq(taxable, Zero) \/ reached = {} THEN Zero
        ELSE RatMul(taxable, brackets[top][2])

\* a mutant of calculate_tax: no early return for taxable_income <= 0
calculate_tax_unguarded(taxable, brackets) ==
    RatMax(TaxLoop(taxable, brackets, 1, Zero), Zero)

calculate_tax(taxable, brackets) ==
    IF RatLeq(taxable, Zero) THEN Zero
    ELSE RatMax(TaxLoop(taxable, brackets, 1, Zero), Zero)

\* ------------------------------------------------------------ dict helpers
\* d.get(k, default)
Get(d, k, default) == IF k \in DOMAIN d THEN d[k] ELSE default

Max(a, b) == IF a < b THEN b ELSE a
Min(a, b) == IF a < b THEN a ELSE b

\* sum(d[k] for k in S), the values rationals
RECURSIVE SetSum(_, _)
SetSum(d, S) ==
    IF S = {} THEN Zero
    ELSE LET k == CHOOSE x \in S : TRUE
         IN  RatAdd(d[k], SetSum(d, S \ {k}))

\* sum(d.get(k, 0) for k in S), the values ints
RECURSIVE IntSum(_, _)
IntSum(d, S) ==
    IF S = {} THEN 0
    ELSE LET k == CHOOSE x \in S : TRUE
         IN  Get(d, k, 0) + IntSum(d, S \ {k})

\* ------------------------------------------------------------ helpers
\* the floats that are no rationals, written with a zero denominator
NaN == <<0, 0>>
PosInf == <<1, 0>>
NegInf == <<-1, 0>>
IsFinite(a) == a[2] # 0

\* a < b on floats: false whenever a NaN is compared
FloatLess(a, b) ==
    IF a = NaN \/ b = NaN THEN FALSE
    ELSE IF a = PosInf \/ b = NegInf THEN FALSE
    ELSE IF a = NegInf \/ b = PosInf THEN TRUE
    ELSE RatLess(a, b)

\* a / b on floats, b finite and positive
FloatDiv(a, b) == IF IsFinite(a) THEN RatDiv(a, b) ELSE a

\* max(a, b) and min(a, b) of Python: the first argument, unless the second
\* is strictly larger (smaller)
PyMax(a, b) == IF FloatLess(a, b) THEN b ELSE a
PyMin(a, b) == IF FloatLess(b, a) THEN b ELSE a

\* float(s) of a string <<s>>: the number it spells, None where float() raises
\* ValueError
FloatOfString(s) ==
    CASE s = "30" -> R(30)
      [] s = "0.30" -> Rat(30, 100)
      [] s = " 1.5 " -> Rat(15, 10)
      [] s = "nan" -> NaN
      [] s = "inf" -> PosInf
      [] s = "-inf" -> NegInf
      [] OTHER -> None

\* float(r), r not None: a number (a 2-tuple) as it is, a string parsed;
\* None where float() raises
ToFloat(r) == IF Len(r) = 2 THEN r ELSE FloatOfString(r[1])

\* float(r) does not raise
CanFloat(r) == ~IsNone(ToFloat(r))

\* the outcome of a call that an exception leaves
Raised == <<"raised">>

\* a mutant of normalize_return: no "try ... except", the exception of
\* float(r) leaves the function
normalize_return_uncaught(r) ==
    IF IsNone(r) THEN Zero
    ELSE IF ~CanFloat(r) THEN Raised
    ELSE LET f == ToFloat(r)
             r_float == IF FloatLess(Rat(15, 10), f) THEN FloatDiv(f, R(100)) ELSE f
         IN  PyMax(Rat(-90, 100), PyMin(Rat(200, 100), r_float))

\* a mutant of normalize_return: ">=" for ">", 1.5 itself is taken as a
\* percentage
normalize_return_inclusive(r) ==
    IF IsNone(r) THEN Zero
    ELSE IF ~CanFloat(r) THEN Zero
    ELSE LET f == ToFloat(r)
             r_float == IF ~FloatLess(f, Rat(15, 10)) /\ f # NaN
                        THEN FloatDiv(f, R(100)) ELSE f
         IN  PyMax(Rat(-90, 100), PyMin(Rat(200, 100), r_float))

\* a mutant of normalize_return: "min(r_float, 2.00)" for "min(2.00, r_float)"
\* and "max(that, -0.90)" for "max(-0.90, that)", a NaN survives both
normalize_return_swapped(r) ==
    IF IsNone(r) THEN Zero
    ELSE IF ~CanFloat(r) THEN Zero
    ELSE LET f == ToFloat(r)
             r_float == IF FloatLess(Rat(15, 10), f) THEN FloatDiv(f, R(100)) ELSE f
         IN  PyMax(PyMin(r_float, Rat(200, 100)), Rat(-90, 100))

normalize_return(r) ==
    IF IsNone(r) THEN Zero
    ELSE IF ~CanFloat(r) THEN Zero
    ELSE LET f == ToFloat(r)
             r_float == IF FloatLess(Rat(15, 10), f) THEN FloatDiv(f, R(100)) ELSE f
         IN  PyMax(Rat(-90, 100), PyMin(Rat(200, 100), r_float))

\* the display string, as <<text>> or <<decimal years, " years">>
format_eta_decimal(eta_years) ==
    IF IsNone(eta_years) THEN <<"> capped horizon">>
    ELSE <<eta_years, " years">>

\* a mutant of agi_reducing_accounts: the Roth IRA is listed, the HSA is not
agi_reducing_accounts_roth ==
    {"403(b) Traditional", "457(b) Traditional",
     "401(a) Employee", "Solo 401(k) Employee",
     "SEP IRA", "SIMPLE IRA", "Traditional IRA", "Roth IRA", "FSA"}

\* the accounts whose contributions reduce AGI, as listed in the run block
agi_reducing_accounts ==
    {"403(b) Traditional", "457(b) Traditional",
     "401(a) Employee", "Solo 401(k) Employee",
     "SEP IRA", "SIMPLE IRA", "Traditional IRA", "HSA", "FSA"}

employer_funded_accounts == {"401(a) Employer"}

VA_529_CAP == 4000

\* a mutant of StdDed: the two filing statuses swapped
StdDed_swapped(filing) ==
    IF filing = "Single" THEN STANDARD_DEDUCTION_2025_MARRIED
    ELSE STANDARD_DEDUCTION_2025_SINGLE

StdDed(filing) ==
    IF filing = "Single" THEN STANDARD_DEDUCTION_2025_SINGLE
    ELSE STANDARD_DEDUCTION_2025_MARRIED

FedBrackets(filing) ==
    IF filing = "Single" THEN FEDERAL_BRACKETS_2025_SINGLE
    ELSE FEDERAL_BRACKETS_2025_MARRIED

\* recompute_tax_with_override; override_key None means no override.
\* Returns <<taxable, fed, sta, fed + sta>>.
recompute_tax_with_override(base_gross, pension_contrib, filing, contribs_in, override_key, override_value) ==
    LET contribs == IF IsNone(override_key) THEN contribs_in
                    ELSE [k \in DOMAIN contribs_in \cup {override_key[1]} |->
                            IF k = override_key[1] THEN override_value
                            ELSE contribs_in[k]]
        std_ded == StdDed(filing)
        fed_br == FedBrackets(filing)
        reducing == {"403(b) Traditional", "457(b) Traditional",
                     "401(a) Employee", "Solo 401(k) Employee",
                     "SEP IRA", "SIMPLE IRA", "Traditional IRA", "HSA", "FSA"}
        agi0 == RatSub(R(base_gross), pension_contrib)
        agi1 == RatSub(agi0, R(IntSum(contribs, reducing)))
        agi2 == RatSub(agi1, R(Min(Get(contribs, "529 Plan", 0), 4000)))
        taxable == RatMax(RatSub(agi2, R(std_ded)), Zero)
        fed == calculate_tax(taxable, fed_br)
        sta == calculate_tax(taxable, VIRGINIA_BRACKETS_2025)
    IN  <<taxable, fed, sta, RatAdd(fed, sta)>>

\* ------------------------------------------------------------ the run block
\* Taxes / cash flow, from the widget values
RunPensionContribution == RatMul(R(gross_salary), Rat(pension_percent, 100))

RunVa529Deduction == Min(Get(contributions, "529 Plan", 0), VA_529_CAP)

RunAgi ==
    RatSub(RatSub(RatSub(R(gross_salary), RunPensionContribution),
                  R(IntSum(contributions, agi_reducing_accounts))),
           R(RunVa529Deduction))

RunTaxableIncome ==
    RatMax(RatSub(RunAgi, R(StdDed(filing_status))), Zero)

RunFederalTax == calculate_tax(RunTaxableIncome, FedBrackets(filing_status))
RunStateTax == calculate_tax(RunTaxableIncome, VIRGINIA_BRACKETS_2025)
RunTotalTax == RatAdd(RunFederalTax, RunStateTax)

RunEffectiveTaxRate ==
    IF gross_salary > 0 THEN RatDiv(RunTotalTax, R(gross_salary)) ELSE Zero

RunAfterTaxIncome ==
    RatSub(RatSub(R(gross_salary), RunPensionContribution), RunTotalTax)

RunTotalSavings == IntSum(contributions, DOMAIN contributions)
RunPreTaxSum == IntSum(contributions, agi_reducing_accounts) + RunVa529Deduction
RunEmployerSum == IntSum(contributions, employer_funded_accounts)
RunPostTaxSavings == RunTotalSavings - RunPreTaxSum - RunEmployerSum

\* a mutant of RunDisposableIncome: the total is clamped at 0 as the chart's
\* values are
RunDisposableIncome_clamped ==
    RatMax(Zero, RatSub(RunAfterTaxIncome, R(RunPostTaxSavings)))

\* after_tax_income - post_tax_savings
RunDisposableIncome == RatSub(RunAfterTaxIncome, R(RunPostTaxSavings))

\* Warnings, in the order the code appends them
OverWarning(a, b, key, label) ==
    LET t == Get(contributions, a, 0) + Get(contributions, b, 0)
    IN  IF t > hints[key] THEN << <<label, t, hints[key]>> >> ELSE <<>>

RunWarnMsgs ==
    LET ira_total == Get(contributions, "Traditional IRA", 0)
                     + Get(contributions, "Roth IRA", 0)
        ira_hint == hints["IRA (Traditional/Roth) combined"]
    IN  (IF ira_total > ira_hint
         THEN << <<"IRA combined", ira_total, ira_hint>> >> ELSE <<>>)
        \o OverWarning("457(b) Traditional", "457(b) Roth",
                       "457(b) employee deferral", "457(b)")
        \o OverWarning("403(b) Traditional", "403(b) Roth",
                       "403(b) employee deferral", "403(b)")
        \o (IF RatLess(RunAfterTaxIncome, R(RunPostTaxSavings))
            THEN << <<"Post-tax savings > after-tax income (negative disposable).">> >>
            ELSE <<>>)

\* ------------------------------------------------------------ portfolio build
years_until_ret == Max(1, target_age - current_age)

default_return_all_else == Rat(8, 100)

specified_total == SetSum(account_start_balances, DOMAIN account_start_balances)

\* granular mode: the remainder of the current investments
other_start == RatMax(RatSub(R(current_investments), specified_total), Zero)

\* a mutant of BuildPortfolio: the balances are not taken from the inputs when
\* a result is stored, each account goes on from the last balance of the run
\* before
BuildPortfolio_carried ==
    LET other == IF RatLess(Zero, other_start) THEN {"Other Investments"} ELSE {}
        funded == {a \in DOMAIN account_start_balances :
                       RatLess(Zero, account_start_balances[a])}
        carried(a, b) ==
            IF ~IsNone(sim) /\ a \in DOMAIN sim[1].account_history
            THEN sim[1].account_history[a][Len(sim[1].account_history[a])]
            ELSE b
    IN  [a \in other \cup funded \cup DOMAIN contributions |->
            IF a \in funded
            THEN [balance |-> carried(a, account_start_balances[a]),
                  return |-> normalize_return(
                                 Get(account_returns, a, default_return_all_else))]
            ELSE IF a \in other
            THEN [balance |-> carried(a, other_start),
                  return |-> normalize_return(other_return)]
            ELSE [balance |-> carried(a, Zero),
                  return |-> normalize_return(
                                 Get(account_returns, a, default_return_all_else))]]

BuildPortfolio ==
    LET other == IF RatLess(Zero, other_start) THEN {"Other Investments"} ELSE {}
        funded == {a \in DOMAIN account_start_balances :
                       RatLess(Zero, account_start_balances[a])}
    IN  [a \in other \cup funded \cup DOMAIN contributions |->
            IF a \in funded
            THEN [balance |-> account_start_balances[a],
                  return |-> normalize_return(
                                 Get(account_returns, a, default_return_all_else))]
            ELSE IF a \in other
            THEN [balance |-> other_start,
                  return |-> normalize_return(other_return)]
            ELSE [balance |-> Zero,
                  return |-> normalize_return(
                                 Get(account_returns, a, default_return_all_else))]]

AnnualContribs(pf) == [a \in DOMAIN pf |-> R(Get(contributions, a, 0))]

\* sum(b["balance"] for b in portfolio.values())
Total(pf) == SetSum([a \in DOMAIN pf |-> pf[a].balance], DOMAIN pf)

\* {acct: portfolio[acct]["balance"] for acct in portfolio}
Snapshot(pf) == [a \in DOMAIN pf |-> pf[a].balance]

\* ------------------------------------------------------------ FI targets
swr == RatDiv(swr_percent, R(100))
inflation == RatDiv(inflation_percent, R(100))

\* a mutant of FiTarget: the SWR taken in percent, not as a fraction
FiTarget_percent(multiplier) ==
    RatDiv(RatMul(R(annual_expenses), multiplier), swr_percent)

\* (annual_expenses * multiplier) / swr
FiTarget(multiplier) == RatDiv(RatMul(R(annual_expenses), multiplier), swr)

base_full_fi == RatDiv(R(annual_expenses), swr)
base_lean_fi == FiTarget(Rat(75, 100))
base_chubby_fi == FiTarget(Rat(120, 100))
base_fat_fi == FiTarget(Rat(150, 100))
base_obese_fi == FiTarget(Rat(200, 100))
base_barista_fi == FiTarget(Rat(50, 100))
base_flamingo_fi == RatMul(Rat(50, 100), base_full_fi)
\* a mutant of coast_fi_target: the Full-FI number compounded forward over
\* the years to retirement, "*" for "/"
coast_fi_target_compounded ==
    RatMul(base_full_fi,
           RatPow(RatAdd(One, default_return_all_else), years_until_ret))

\* base_full_fi / ((1 + default_return_all_else) ** years_until_ret)
coast_fi_target ==
    RatDiv(base_full_fi,
           RatPow(RatAdd(One, default_return_all_else), years_until_ret))

MilestoneDefs ==
    << <<"Coast FI", coast_fi_target>>,
       <<"Flamingo FI (50% of FI #)", base_flamingo_fi>>,
       <<"Barista FI (covers ~50% of expenses)", base_barista_fi>>,
       <<"Lean FI (75% Expenses)", base_lean_fi>>,
       <<"Chubby FI (~120% Expenses)", base_chubby_fi>>,
       <<"Full FI (100% Expenses)", base_full_fi>>,
       <<"Fat FI (150% Expenses)", base_fat_fi>>,
       <<"Obese FI (200% Expenses)", base_obese_fi>> >>

MilestoneNames(defs) == {defs[i][1] : i \in 1..Len(defs)}

\* the target of the milestone called name
TargetOf(defs, name) ==
    defs[CHOOSE i \in 1..Len(defs) : defs[i][1] = name][2]

HORIZON_CAP == 50

\* a mutant of SimYears: the cap of 50 years is not applied
SimYears_uncapped == Max(1, sim_until_age - current_age)

\* max(1, min(50, int(sim_until_age - current_age)))
SimYears == Max(1, Min(HORIZON_CAP, sim_until_age - current_age))

\* a mutant of InitialEta: no milestone is checked against the starting total,
\* every crossing time starts as None
InitialEta_unset(pf, defs) == [name \in MilestoneNames(defs) |-> None]

\* milestone_eta before the loop: 0.0 where the starting total meets the target
InitialEta(pf, defs) ==
    [name \in MilestoneNames(defs) |->
        IF RatLeq(TargetOf(defs, name), Total(pf)) THEN Zero ELSE None]

\* ------------------------------------------------------------ the sim loop
\* a mutant of GrowAndContribute: the contribution lands before the growth and
\* compounds in the year it is made
GrowAndContribute_start_of_year(balance, r, contribution) ==
    RatMul(RatAdd(balance, contribution), RatAdd(One, r))

\* a mutant of GrowAndContribute: "balance * r" for "balance * (1 + r)", the
\* year's growth alone is kept
GrowAndContribute_growth_only(balance, r, contribution) ==
    RatAdd(RatMul(balance, r), contribution)

\* portfolio[acct]["balance"] * (1 + r) + annual_contribs.get(acct, 0.0)
GrowAndContribute(balance, r, contribution) ==
    RatAdd(RatMul(balance, RatAdd(One, r)), contribution)

\* the "grow & contribute" loop over the accounts
Grown(pf, contribs) ==
    [a \in DOMAIN pf |->
        [pf[a] EXCEPT !.balance =
            GrowAndContribute(pf[a].balance, pf[a].return, Get(contribs, a, Zero))]]

EPSILON == Rat(1, 1000000000)

\* span = max(total_balance - prev_total, 1e-9)
Span(total, prev) == RatMax(RatSub(total, prev), EPSILON)

\* prev_total < target <= total_balance
Crosses(prev, target, total) == RatLess(prev, target) /\ RatLeq(target, total)

\* a mutant of CrossingTime: the integer-year policy
CrossingTime_whole_year(y, prev, target, total) == R(y)

\* (year - 1) + (target - prev_total) / span
CrossingTime(y, prev, target, total) ==
    RatAdd(R(y - 1), RatDiv(RatSub(target, prev), Span(total, prev)))

\* a mutant of UpdatedEta: a crossing overwrites a time already recorded
UpdatedEta_overwrite(eta, defs, y, prev, total) ==
    [name \in DOMAIN eta |->
        IF Crosses(prev, TargetOf(defs, name), total)
        THEN CrossingTime(y, prev, TargetOf(defs, name), total)
        ELSE eta[name]]

\* the fractional-crossing loop over milestone_defs in simulated year y
UpdatedEta(eta, defs, y, prev, total) ==
    [name \in DOMAIN eta |->
        IF IsNone(eta[name]) /\ Crosses(prev, TargetOf(defs, name), total)
        THEN CrossingTime(y, prev, TargetOf(defs, name), total)
        ELSE eta[name]]

\* a mutant of ReachesFullFi: "full_fi_first_year is None" is not asked, every
\* year at or above the target records itself
ReachesFullFi_latest(first_year, total) == RatLeq(base_full_fi, total)

\* a mutant of ReachesFullFi: ">" for ">=", a year ending exactly on the target
\* does not count
ReachesFullFi_strict(first_year, total) ==
    IsNone(first_year) /\ RatLess(base_full_fi, total)

\* full_fi_first_year is None and total_balance >= base_full_fi
ReachesFullFi(first_year, total) ==
    IsNone(first_year) /\ RatLeq(base_full_fi, total)

\* a mutant of SnapshotAt: the snapshot is the portfolio's own mapping, not a
\* copy, and shows the growth of the years after the checkpoint
SnapshotAt_alias(y, checkpoint, pf, snap) ==
    IF y >= checkpoint THEN Some(Snapshot(pf)) ELSE snap

\* "if year == checkpoint: snapshot = {acct: balance ...}": a copy of the
\* balances at the end of the checkpoint year, otherwise what it was
SnapshotAt(y, checkpoint, pf, snap) ==
    IF y = checkpoint THEN Some(Snapshot(pf)) ELSE snap

\* v / ((1.0 + inflation) ** t_years), the deflator kept as base and exponent
Deflated(v, t_years) ==
    [nominal |-> v, base |-> RatAdd(One, inflation), exponent |-> t_years]

\* discount_snapshot(snap_dict, t_years), snap_dict None or <<dict>>
discount_snapshot(snap_dict, t_years) ==
    IF IsNone(snap_dict) THEN None
    ELSE Some([k \in DOMAIN snap_dict[1] |-> Deflated(snap_dict[1][k], t_years)])

\* a mutant of RetSnapshotYear: the retirement snapshot is deflated over
\* years_until_ret also when the run ended before that year
RetSnapshotYear_uncapped == years_until_ret

\* min(years_until_ret, sim_years), the horizon of real_snapshot_at_ret
RetSnapshotYear == Min(years_until_ret, sim_years)

\* a mutant of SwrInvalid: "<" for "<=", an SWR of exactly 0 passes the check
SwrInvalid_strict == RatLess(swr, Zero)

\* if swr <= 0
SwrInvalid == RatLeq(swr, Zero)

\* ------------------------------------------------------------ actions
\* "Run / Update FIRE Simulation" clicked: the run block up to the sim loop
ClickRun ==
    /\ pc = "idle"
    /\ agi' = RunAgi
    /\ taxable_income' = RunTaxableIncome
    /\ federal_tax' = RunFederalTax
    /\ state_tax' = RunStateTax
    /\ total_tax' = RunTotalTax
    /\ pension_contribution' = RunPensionContribution
    /\ after_tax_income' = RunAfterTaxIncome
    /\ post_tax_savings' = RunPostTaxSavings
    /\ disposable_income' = RunDisposableIncome
    /\ warn_msgs' = RunWarnMsgs
    /\ portfolio' = BuildPortfolio
    /\ annual_contribs' = AnnualContribs(BuildPortfolio)
    /\ account_history' = [a \in DOMAIN BuildPortfolio |-> <<>>]
    /\ IF SwrInvalid
       THEN \* st.error(...); st.stop()
            /\ pc' = "stopped"
            /\ error_msg' = Some("Safe Withdrawal Rate must be > 0%.")
            /\ UNCHANGED <<milestone_defs, milestone_eta, sim_years, year, years,
                           balances, prev_total, total_balance, snapshot_at_ret,
                           full_fi_first_year, snapshot_full_fi, snapshot_5yr,
                           snapshot_10yr>>
       ELSE IF swr = Zero
       THEN \* annual_expenses / swr raises ZeroDivisionError
            /\ pc' = "raised"
            /\ error_msg' = error_msg
            /\ UNCHANGED <<milestone_defs, milestone_eta, sim_years, year, years,
                           balances, prev_total, total_balance, snapshot_at_ret,
                           full_fi_first_year, snapshot_full_fi, snapshot_5yr,
                           snapshot_10yr>>
       ELSE /\ pc' = "loop"
            /\ error_msg' = error_msg
            /\ milestone_defs' = MilestoneDefs
            /\ sim_years' = SimYears
            /\ year' = 0
            /\ years' = <<>>
            /\ balances' = <<>>
            /\ milestone_eta' = InitialEta(BuildPortfolio, MilestoneDefs)
            /\ prev_total' = None
            /\ total_balance' = None
            /\ snapshot_at_ret' = None
            /\ full_fi_first_year' = None
            /\ snapshot_full_fi' = None
            /\ snapshot_5yr' = None
            /\ snapshot_10yr' = None
    /\ UNCHANGED <<callVars, normVars, inputVars, sim>>

\* one iteration of "for year in range(1, sim_years + 1)"
SimYear ==
    /\ pc = "loop"
    /\ year < sim_years
    /\ LET y == year + 1
           prev == Total(portfolio)
           pf == Grown(portfolio, annual_contribs)
           total == Total(pf)
           reached == ReachesFullFi(full_fi_first_year, total)
       IN  /\ year' = y
           /\ prev_total' = prev
           /\ portfolio' = pf
           /\ total_balance' = total
           /\ account_history' =
                  [a \in DOMAIN pf |-> Append(account_history[a], pf[a].balance)]
           /\ years' = Append(years, y)
           /\ balances' = Append(balances, total)
           /\ snapshot_5yr' = SnapshotAt(y, 5, pf, snapshot_5yr)
           /\ snapshot_10yr' = SnapshotAt(y, 10, pf, snapshot_10yr)
           /\ full_fi_first_year' = IF reached THEN Some(y) ELSE full_fi_first_year
           /\ snapshot_full_fi' =
                  IF reached THEN Some(Snapshot(pf)) ELSE snapshot_full_fi
           /\ milestone_eta' = UpdatedEta(milestone_eta, milestone_defs, y, prev, total)
           /\ snapshot_at_ret' = SnapshotAt(y, years_until_ret, pf, snapshot_at_ret)
    /\ UNCHANGED <<callVars, normVars, inputVars, pc, taxVars, annual_contribs,
                   milestone_defs, sim_years, sim>>

\* the code after the loop: the fallback snapshot, the real series, the save
\* to st.session_state["sim"], and the result tabs shown
FinishRun ==
    /\ pc = "loop"
    /\ year = sim_years
    /\ LET at_ret == IF IsNone(snapshot_at_ret)
                     THEN Some(Snapshot(portfolio)) ELSE snapshot_at_ret
       IN  /\ snapshot_at_ret' = at_ret
           /\ sim' = Some(
                [agi |-> agi, taxable_income |-> taxable_income,
                 federal_tax |-> federal_tax, state_tax |-> state_tax,
                 total_tax |-> total_tax,
                 effective_tax_rate |-> RunEffectiveTaxRate,
                 after_tax_income |-> after_tax_income,
                 total_savings |-> RunTotalSavings,
                 employer_sum |-> RunEmployerSum,
                 post_tax_savings |-> post_tax_savings,
                 disposable_income |-> disposable_income,
                 pension_contribution |-> pension_contribution,
                 warn_msgs |-> warn_msgs,
                 years |-> years, balances |-> balances,
                 real_balances |->
                     [i \in 1..Len(years) |-> Deflated(balances[i], years[i])],
                 sim_years |-> sim_years,
                 snapshot_at_ret |-> at_ret,
                 snapshot_full_fi |-> snapshot_full_fi,
                 snapshot_5yr |-> snapshot_5yr,
                 snapshot_10yr |-> snapshot_10yr,
                 real_snapshot_at_ret |->
                     discount_snapshot(at_ret, RetSnapshotYear),
                 real_snapshot_full_fi |->
                     IF IsNone(full_fi_first_year) THEN None
                     ELSE discount_snapshot(snapshot_full_fi, full_fi_first_year[1]),
                 real_snapshot_5yr |->
                     IF IsNone(snapshot_5yr) \/ DOMAIN snapshot_5yr[1] = {} THEN None
                     ELSE discount_snapshot(snapshot_5yr, 5),
                 real_snapshot_10yr |->
                     IF IsNone(snapshot_10yr) \/ DOMAIN snapshot_10yr[1] = {} THEN None
                     ELSE discount_snapshot(snapshot_10yr, 10),
                 milestone_defs |-> milestone_defs,
                 milestone_eta |-> milestone_eta,
                 full_fi_first_year |-> full_fi_first_year,
                 account_history |-> account_history,
                 swr |-> swr, annual_expenses |-> annual_expenses,
                 years_until_ret |-> years_until_ret,
                 inflation |-> inflation,
                 sim_until_age |-> sim_until_age])
    /\ pc' = "shown"
    /\ UNCHANGED <<callVars, normVars, inputVars, taxVars, portfolio, annual_contribs,
                   account_history, milestone_defs, milestone_eta, sim_years, year,
                   years, balances, prev_total, total_balance, full_fi_first_year,
                   snapshot_full_fi, snapshot_5yr, snapshot_10yr>>

\* ------------------------------------------------------------ the result tabs
\* The values the Tax Planning tab builds for the cash-flow chart, from the
\* stored result sim[1] and the widget values of the script run showing it.
base_tax_total ==
    LET base_agi == RatSub(R(gross_salary), sim[1].pension_contribution)
        base_taxable_income == RatMax(RatSub(base_agi, R(StdDed(filing_status))), Zero)
    IN  RatAdd(calculate_tax(base_taxable_income, FedBrackets(filing_status)),
               calculate_tax(base_taxable_income, VIRGINIA_BRACKETS_2025))

\* max(0.0, gross_salary - base_pre_tax_stack - base_tax_total - base_post_tax_savings)
base_disposable ==
    RatMax(Zero, RatSub(RatSub(RatSub(R(gross_salary), sim[1].pension_contribution),
                               base_tax_total),
                        Zero))

with_pre_tax_stack ==
    RatAdd(sim[1].pension_contribution,
           R(IntSum(contributions, agi_reducing_accounts)))

\* max(0.0, gross_salary - with_pre_tax_stack - with_tax_total - with_post_tax_savings)
with_disposable ==
    RatMax(Zero, RatSub(RatSub(RatSub(R(gross_salary), with_pre_tax_stack),
                               RatAdd(sim[1].federal_tax, sim[1].state_tax)),
                        R(sim[1].post_tax_savings)))

\* "Which contributions saved you the most tax?"
pre_tax_like ==
    {"403(b) Traditional", "457(b) Traditional",
     "401(a) Employee", "Solo 401(k) Employee",
     "SEP IRA", "SIMPLE IRA", "Traditional IRA", "HSA", "FSA"}

\* the accounts that get a row: amt = contributions.get(acct, 0.0) above 0
impact_accounts ==
    {acct \in pre_tax_like \cup {"529 Plan"} : Get(contributions, acct, 0) > 0}

\* delta_tax = tot2 - sim["total_tax"], tot2 the total tax recomputed from the
\* widget values with the contribution to acct set to 0.0
delta_tax(acct) ==
    RatSub(recompute_tax_with_override(gross_salary, sim[1].pension_contribution,
                                       filing_status, contributions,
                                       Some(acct), 0)[4],
           sim[1].total_tax)

\* ------------------------------------------------------------ input space
DefaultHints ==
    ("IRA (Traditional/Roth) combined" :> 7000)
    @@ ("457(b) employee deferral" :> 23500)
    @@ ("403(b) employee deferral" :> 23500)
    @@ ("HSA (family)" :> 8550)
    @@ ("FSA (health)" :> 3300)
    @@ ("415(c) overall DC limit" :> 70000)
    @@ ("529 (VA deduction hint)" :> 4000)

NoDict == [k \in {} |-> 0]

\* the accounts given a contribution in some choice below
ContributionChoices ==
    { NoDict,
      "403(b) Traditional" :> 23500,
      ("403(b) Traditional" :> 23500) @@ ("Roth IRA" :> 5000)
          @@ ("401(a) Employer" :> 2000) @@ ("529 Plan" :> 6000),
      "Crypto" :> 200000,
      "Roth IRA" :> 10000,
      ("529 Plan" :> 2000) @@ ("HSA" :> 1000) @@ ("Traditional IRA" :> 8000),
      "Roth IRA" :> -3000,
      "HSA" :> 9000 }

ContributionAccounts ==
    {"403(b) Traditional", "Roth IRA", "401(a) Employer", "529 Plan", "Crypto",
     "HSA", "Traditional IRA"}

\* starting balances, per-account returns, current investments, other return
PortfolioChoices ==
    { [balances |-> NoDict,
       returns |-> [a \in ContributionAccounts |-> Zero],
       investments |-> 0, other |-> Rat(8, 100)],
      [balances |-> ("Crypto" :> R(900000)),
       returns |-> [a \in ContributionAccounts |-> Zero],
       investments |-> 900000, other |-> Rat(8, 100)],
      [balances |-> ("Crypto" :> R(1600000)) @@ ("Roth IRA" :> R(200000)),
       returns |-> [a \in ContributionAccounts |->
                       IF a = "Crypto" THEN Rat(-50, 100)
                       ELSE IF a = "Roth IRA" THEN Rat(50, 100) ELSE Zero],
       investments |-> 1800000, other |-> Rat(8, 100)],
      [balances |-> ("Roth IRA" :> R(100000)),
       returns |-> NoDict,
       investments |-> 250000, other |-> Rat(8, 100)],
      [balances |-> ("Crypto" :> R(900000)) @@ ("Roth IRA" :> R(150000)),
       returns |-> [a \in ContributionAccounts |->
                       IF a = "Crypto" THEN Rat(-50, 100)
                       ELSE IF a = "Roth IRA" THEN Rat(100, 100) ELSE Zero],
       investments |-> 1050000, other |-> Rat(8, 100)] }

\* every return the choice can give an account is 0.0
ZeroReturns(p) ==
    /\ \A a \in DOMAIN p.returns : p.returns[a] = Zero
    /\ ContributionAccounts \subseteq DOMAIN p.returns
    /\ SetSum(p.balances, DOMAIN p.balances) = R(p.investments)

MaxSimGap == 3

\* "Show results until age" minus the current age: short horizons, and one
\* beyond the cap of 50 years
SimGaps == (1..MaxSimGap) \cup {HORIZON_CAP + 10}

IdleLocals ==
    /\ pc = "idle"
    /\ agi = None /\ taxable_income = None /\ federal_tax = None
    /\ state_tax = None /\ total_tax = None /\ pension_contribution = None
    /\ after_tax_income = None /\ post_tax_savings = None
    /\ disposable_income = None /\ warn_msgs = <<>> /\ error_msg = None
    /\ portfolio = NoDict /\ annual_contribs = NoDict /\ account_history = NoDict
    /\ milestone_defs = <<>> /\ milestone_eta = NoDict
    /\ sim_years = 0 /\ year = 0 /\ years = <<>> /\ balances = <<>>
    /\ prev_total = None /\ total_balance = None
    /\ snapshot_at_ret = None /\ full_fi_first_year = None
    /\ snapshot_full_fi = None /\ snapshot_5yr = None /\ snapshot_10yr = None

NoCall ==
    /\ call_pc = "idle" /\ call_taxable = Zero
    /\ call_brackets = <<>> /\ call_tax = None

NoNormCall == norm_pc = "idle" /\ norm_arg = None /\ norm_result = None

\* the first script run of a session: the widgets set, nothing run yet
Init ==
    /\ filing_status \in {"Single", "Married Filing Jointly"}
    /\ gross_salary \in {60000, 150000}
    /\ pension_percent \in {0, 5}
    /\ annual_expenses \in {40000, 100000}
    /\ swr_percent = R(4)
    /\ inflation_percent = R(3)
    /\ current_age = 40
    /\ target_age \in {39, 41, 42}
    /\ sim_until_age \in {current_age + g : g \in SimGaps}
    /\ contributions \in ContributionChoices
    /\ hints = DefaultHints
    /\ \E p \in PortfolioChoices :
          /\ sim_until_age - current_age > MaxSimGap => ZeroReturns(p)
          /\ account_start_balances = p.balances
          /\ account_returns = p.returns
          /\ current_investments = p.investments
          /\ other_return = p.other
    /\ IdleLocals
    /\ sim = None
    /\ NoCall
    /\ NoNormCall

Next == ClickRun \/ SimYear \/ FinishRun

Spec == Init /\ [][Next]_vars

\* ------------------------------------------------------------ the SWR check alone
\* The run block entered with any SWR, also one at or below zero.  The SWR
\* widget (min_value=2.0) delivers no such value, so the check of line 377 is
\* exercised here on its own, with the other inputs as in Init.
SwrPercents == {R(-1), Zero, R(4)}

InitSwr ==
    /\ filing_status = "Single"
    /\ gross_salary = 150000
    /\ pension_percent = 5
    /\ annual_expenses \in {40000, 100000}
    /\ swr_percent \in SwrPercents
    /\ inflation_percent = R(3)
    /\ current_age = 40
    /\ target_age \in {41, 42}
    /\ sim_until_age \in {current_age + g : g \in 1..MaxSimGap}
    /\ contributions \in ContributionChoices
    /\ hints = DefaultHints
    /\ \E p \in PortfolioChoices :
          /\ account_start_balances = p.balances
          /\ account_returns = p.returns
          /\ current_investments = p.investments
          /\ other_return = p.other
    /\ IdleLocals
    /\ sim = None
    /\ NoCall
    /\ NoNormCall

SpecSwr == InitSwr /\ [][Next]_vars

\* ------------------------------------------------------------ a session of script runs
\* Streamlit runs the script from the top at every interaction.  The locals
\* of the run before are gone, st.session_state["sim"] is kept (lines 35-36
\* set it only when it is missing), and the widgets deliver their values.

\* the locals of a script run that has not entered "if clicked:"
FreshLocals ==
    /\ agi' = None /\ taxable_income' = None /\ federal_tax' = None
    /\ state_tax' = None /\ total_tax' = None /\ pension_contribution' = None
    /\ after_tax_income' = None /\ post_tax_savings' = None
    /\ disposable_income' = None /\ warn_msgs' = <<>> /\ error_msg' = None
    /\ portfolio' = NoDict /\ annual_contribs' = NoDict /\ account_history' = NoDict
    /\ milestone_defs' = <<>> /\ milestone_eta' = NoDict
    /\ sim_years' = 0 /\ year' = 0 /\ years' = <<>> /\ balances' = <<>>
    /\ prev_total' = None /\ total_balance' = None
    /\ snapshot_at_ret' = None /\ full_fi_first_year' = None
    /\ snapshot_full_fi' = None /\ snapshot_5yr' = None /\ snapshot_10yr' = None

\* the script run before has ended
RunEnded == pc \in {"shown", "viewed", "stopped", "raised"}

\* a mutant of Rerun: lines 35-36 without the "if", the stored result is
\* cleared at the top of every script run
Rerun_forgets ==
    /\ RunEnded
    /\ pc' = "idle"
    /\ FreshLocals
    /\ sim' = None
    /\ UNCHANGED <<callVars, normVars, inputVars>>

\* the script starts anew with the widgets as they are (a click on the
\* button, or an interaction that edits no input), lines 35-314
Rerun ==
    /\ RunEnded
    /\ pc' = "idle"
    /\ FreshLocals
    /\ sim' = sim
    /\ UNCHANGED <<callVars, normVars, inputVars>>

SessionSalaries == {60000, 150000}

SessionContributions ==
    { NoDict,
      "403(b) Traditional" :> 23500,
      ("529 Plan" :> 2000) @@ ("HSA" :> 1000) @@ ("Traditional IRA" :> 8000) }

\* the script starts anew after one input was edited: the salary, or the
\* contributions
EditInputs ==
    /\ RunEnded
    /\ \/ /\ gross_salary' \in SessionSalaries \ {gross_salary}
          /\ contributions' = contributions
       \/ /\ contributions' \in SessionContributions \ {contributions}
          /\ gross_salary' = gross_salary
    /\ pc' = "idle"
    /\ FreshLocals
    /\ sim' = sim
    /\ UNCHANGED <<callVars, normVars, filing_status, pension_percent,
                   annual_expenses, swr_percent, inflation_percent, current_age,
                   target_age, sim_until_age, hints, account_start_balances,
                   account_returns, current_investments, other_return>>

\* the script starts anew with another SWR, also one the widget does not
\* deliver (see SwrPercents)
EditSwr ==
    /\ RunEnded
    /\ swr_percent' \in SwrPercents \ {swr_percent}
    /\ pc' = "idle"
    /\ FreshLocals
    /\ sim' = sim
    /\ UNCHANGED <<callVars, normVars, filing_status, gross_salary,
                   pension_percent, annual_expenses, inflation_percent,
                   current_age, target_age, sim_until_age, contributions, hints,
                   account_start_balances, account_returns, current_investments,
                   other_return>>

\* "if clicked:" with clicked False: the run block is skipped, and lines 488
\* on show what st.session_state["sim"] holds
SkipRun ==
    /\ pc = "idle"
    /\ pc' = "viewed"
    /\ UNCHANGED <<callVars, normVars, inputVars, taxVars, loopVars, sim>>

\* the portfolios of the sessions: accounts that shrink and grow, and one
\* without returns
SessionPortfolios ==
    {p \in PortfolioChoices : p.investments \in {900000, 1050000}}

InitSession ==
    /\ filing_status = "Single"
    /\ gross_salary \in SessionSalaries
    /\ pension_percent = 5
    /\ annual_expenses = 40000
    /\ swr_percent = R(4)
    /\ inflation_percent = R(3)
    /\ current_age = 40
    /\ target_age = 41
    /\ sim_until_age \in {current_age + g : g \in 1..MaxSimGap}
    /\ contributions \in SessionContributions
    /\ hints = DefaultHints
    /\ \E p \in SessionPortfolios :
          /\ account_start_balances = p.balances
          /\ account_returns = p.returns
          /\ current_investments = p.investments
          /\ other_return = p.other
    /\ IdleLocals
    /\ sim = None
    /\ NoCall
    /\ NoNormCall

\* runs repeated on the same inputs
NextRepeat == ClickRun \/ SkipRun \/ SimYear \/ FinishRun \/ Rerun

SpecRepeat == InitSession /\ [][NextRepeat]_vars

\* runs and edits of the inputs in any order
NextSession == NextRepeat \/ EditInputs

SpecSession == InitSession /\ [][NextSession]_vars

\* runs and edits, the SWR among the inputs edited
NextSessionSwr == NextSession \/ EditSwr

SpecSessionSwr == InitSession /\ [][NextSessionSwr]_vars

\* ------------------------------------------------------------ calculate_tax alone
\* One call of calculate_tax at a time, on the shipped tables and on every
\* small table, its thresholds valid or not.  The rates are marginal tax
\* rates: zero or a positive fraction, as in the shipped tables.
MaxBrackets == 3
MaxIncome == 6

ShippedBrackets ==
    {FEDERAL_BRACKETS_2025_SINGLE, FEDERAL_BRACKETS_2025_MARRIED,
     VIRGINIA_BRACKETS_2025}

SmallBrackets ==
    UNION {[1..n -> {-2, 0, 2, 4} \X {Zero, Rat(1, 10), Rat(1, 4)}] : n \in 0..MaxBrackets}

\* thresholds strictly increasing, first threshold 0
ValidBrackets(b) ==
    /\ Len(b) >= 1
    /\ b[1][1] = 0
    /\ \A i \in 1..(Len(b) - 1) : b[i][1] < b[i + 1][1]

\* the incomes tried on a table: around every threshold of a shipped table,
\* every half dollar of a small one
IncomesFor(b) ==
    IF b \in ShippedBrackets
    THEN {R(-1000), Zero, Rat(1, 2), R(104000), R(1000000)}
         \cup {Rat(2 * b[i][1] + k, 2) : i \in 1..Len(b), k \in {-2, -1, 1, 2}}
    ELSE {Rat(k, 2) : k \in -6..(2 * MaxIncome)}

\* the widgets as the script first shows them, nothing run
DefaultInputs ==
    /\ filing_status = "Single"
    /\ gross_salary = 150000
    /\ pension_percent = 5
    /\ annual_expenses = 45000
    /\ swr_percent = R(4)
    /\ inflation_percent = R(3)
    /\ current_age = 40
    /\ target_age = 58
    /\ sim_until_age = 65
    /\ contributions = ("Crypto" :> 15000) @@ ("Traditional IRA" :> 0)
           @@ ("Roth IRA" :> 5000) @@ ("457(b) Traditional" :> 15000)
           @@ ("403(b) Traditional" :> 23500) @@ ("403(b) Roth" :> 0)
    /\ hints = DefaultHints
    /\ account_start_balances = ("Crypto" :> R(250000))
           @@ ("403(b) Traditional" :> R(176000)) @@ ("403(b) Roth" :> R(28000))
           @@ ("457(b) Traditional" :> R(112000)) @@ ("457(b) Roth" :> R(300))
           @@ ("Traditional IRA" :> R(67000)) @@ ("Roth IRA" :> R(123000))
    /\ account_returns = ("Crypto" :> Rat(20, 100))
           @@ ("403(b) Traditional" :> Rat(8, 100)) @@ ("403(b) Roth" :> Rat(8, 100))
           @@ ("457(b) Traditional" :> Rat(8, 100)) @@ ("457(b) Roth" :> Rat(8, 100))
           @@ ("Traditional IRA" :> Rat(8, 100)) @@ ("Roth IRA" :> Rat(8, 100))
    /\ current_investments = 756300
    /\ other_return = Rat(8, 100)

InitTax ==
    /\ DefaultInputs
    /\ IdleLocals
    /\ sim = None
    /\ call_pc = "args"
    /\ call_brackets \in ShippedBrackets \cup SmallBrackets
    /\ call_taxable \in IncomesFor(call_brackets)
    /\ call_tax = None
    /\ NoNormCall

CallCalculateTax ==
    /\ call_pc = "args"
    /\ call_tax' = calculate_tax(call_taxable, call_brackets)
    /\ call_pc' = "returned"
    /\ UNCHANGED <<call_taxable, call_brackets, normVars, inputVars, pc, taxVars,
                   loopVars, sim>>

\* the next call: another income on the same table
NextIncome ==
    /\ call_pc = "returned"
    /\ call_taxable' \in IncomesFor(call_brackets)
    /\ call_tax' = None
    /\ call_pc' = "args"
    /\ UNCHANGED <<call_brackets, normVars, inputVars, pc, taxVars, loopVars, sim>>

NextTax == CallCalculateTax \/ NextIncome

SpecTax == InitTax /\ [][NextTax]_vars

\* ------------------------------------------------------------ normalize_return alone
\* One call of normalize_return at a time, on None, on numbers (ints and
\* floats, NaN and the infinities among them) and on strings.
MaxHundredths == 300

NormNumbers ==
    {Rat(k, 100) : k \in -MaxHundredths..MaxHundredths}
    \cup {R(k) : k \in {-200, 30, 150, 151, 180, 200, 201, 500}}
    \cup {NaN, PosInf, NegInf}

NormStrings == {"", "abc", "8%", "30", "0.30", " 1.5 ", "nan", "inf", "-inf"}

NormInputs == {None} \cup NormNumbers \cup {<<t>> : t \in NormStrings}

InitNorm ==
    /\ DefaultInputs
    /\ IdleLocals
    /\ sim = None
    /\ NoCall
    /\ norm_pc = "args"
    /\ norm_arg \in NormInputs
    /\ norm_result = None

CallNormalizeReturn ==
    /\ norm_pc = "args"
    /\ LET out == normalize_return(norm_arg)
       IN  /\ norm_result' = out
           /\ norm_pc' = IF out = Raised THEN "raised" ELSE "returned"
    /\ UNCHANGED <<norm_arg, callVars, inputVars, pc, taxVars, loopVars, sim>>

\* the next call, on another argument
NextReturn ==
    /\ norm_pc \in {"returned", "raised"}
    /\ norm_arg' \in NormInputs
    /\ norm_result' = None
    /\ norm_pc' = "args"
    /\ UNCHANGED <<callVars, inputVars, pc, taxVars, loopVars, sim>>

NextNorm == CallNormalizeReturn \/ NextReturn

SpecNorm == InitNorm /\ [][NextNorm]_vars

\* ------------------------------------------------------------ properties
\* what the run block reads from the widgets, restated for the properties
StartingTotal == RatAdd(other_start, specified_total)
ContributionTo(a) == R(Get(contributions, a, 0))
InRun == pc \in {"loop", "shown"}

\* C1: in every simulated year every account of the portfolio is updated
\* exactly once, balance' = balance * (1 + return) + annual contribution, the
\* contribution added after the growth (balance' - contribution is the old
\* balance plus its growth alone); the accounts and their returns stay as they
\* are.  A single account with balance 0, contribution 10000 and return 0.0
\* holds exactly 10000 after year 1.
C1_YearStep ==
    (pc = "loop" /\ year' = year + 1) =>
        /\ DOMAIN portfolio' = DOMAIN portfolio
        /\ \A a \in DOMAIN portfolio :
              /\ portfolio'[a].return = portfolio[a].return
              /\ RatSub(portfolio'[a].balance, ContributionTo(a))
                     = RatAdd(portfolio[a].balance,
                              RatMul(portfolio[a].balance, portfolio[a].return))
              /\ (/\ year = 0
                  /\ portfolio[a].balance = Zero
                  /\ portfolio[a].return = Zero
                  /\ ContributionTo(a) = R(10000))
                 => portfolio'[a].balance = R(10000)

C1_GrowThenContribute == [][C1_YearStep]_vars

\* C1 witness: the single account of the example after its one simulated year
C1_Witness ==
    /\ pc = "shown" /\ sim_years = 1 /\ year = 1
    /\ DOMAIN portfolio = {"Roth IRA"}
    /\ specified_total = Zero /\ other_start = Zero
    /\ Get(contributions, "Roth IRA", 0) = 10000
    /\ portfolio["Roth IRA"].return = Zero
    /\ portfolio["Roth IRA"].balance = R(10000)

\* C2: in simulated year y a milestone with no crossing time yet whose target T
\* satisfies prev_total < T <= total gets the crossing time
\* (y - 1) + (T - prev_total) / max(total - prev_total, 1e-9); every other
\* milestone keeps what it had.  A target halfway between prev_total and total
\* gives the fraction 0.5.
C2_Span(prev, total) ==
    IF RatLess(RatSub(total, prev), Rat(1, 1000000000))
    THEN Rat(1, 1000000000) ELSE RatSub(total, prev)

C2_YearStep ==
    (pc = "loop" /\ year' = year + 1) =>
        LET prev == Total(portfolio)
            total == Total(portfolio')
        IN  \A i \in 1..Len(milestone_defs) :
              LET name == milestone_defs[i][1]
                  T == milestone_defs[i][2]
              IN  IF /\ IsNone(milestone_eta[name])
                     /\ RatLess(prev, T) /\ ~RatLess(total, T)
                  THEN /\ ~IsNone(milestone_eta'[name])
                       /\ RatMul(RatSub(milestone_eta'[name], R(year' - 1)),
                                 C2_Span(prev, total)) = RatSub(T, prev)
                       /\ RatSub(T, prev) = RatSub(total, T)
                              => milestone_eta'[name] = RatAdd(R(year' - 1), Rat(1, 2))
                  ELSE milestone_eta'[name] = milestone_eta[name]

C2_FractionalCrossing == [][C2_YearStep]_vars

\* C2 witness: Full FI of 1,000,000 crossed halfway through year 1, between
\* 900,000 and 1,100,000, while a milestone crossed earlier keeps its time
C2_Witness ==
    /\ InRun /\ year = 1
    /\ prev_total = R(900000) /\ total_balance = R(1100000)
    /\ TargetOf(milestone_defs, "Full FI (100% Expenses)") = R(1000000)
    /\ milestone_eta["Full FI (100% Expenses)"] = Rat(1, 2)
    /\ milestone_eta["Lean FI (75% Expenses)"] = Zero
    /\ IsNone(milestone_eta["Fat FI (150% Expenses)"])

\* C4: AGI is gross salary minus the pension contribution (gross salary times
\* the pension rate), minus the contributions to the nine AGI-reducing
\* accounts, minus min(529 Plan contribution, 4000); no other account's
\* contribution enters it.  recompute_tax_with_override without an override
\* derives the same taxable income from the same inputs.
C4_Contribution(a) == IF a \in DOMAIN contributions THEN contributions[a] ELSE 0

C4_ExpectedAgi ==
    LET pension == RatDiv(R(gross_salary * pension_percent), R(100))
        pretax == C4_Contribution("403(b) Traditional")
                  + C4_Contribution("457(b) Traditional")
                  + C4_Contribution("401(a) Employee")
                  + C4_Contribution("Solo 401(k) Employee")
                  + C4_Contribution("SEP IRA") + C4_Contribution("SIMPLE IRA")
                  + C4_Contribution("Traditional IRA")
                  + C4_Contribution("HSA") + C4_Contribution("FSA")
        capped == IF C4_Contribution("529 Plan") < 4000
                  THEN C4_Contribution("529 Plan") ELSE 4000
    IN  RatSub(RatSub(R(gross_salary), pension), R(pretax + capped))

C4_Agi ==
    InRun =>
        /\ agi = C4_ExpectedAgi
        /\ recompute_tax_with_override(gross_salary, pension_contribution,
               filing_status, contributions, None, None)[1] = taxable_income
        /\ taxable_income = RatMax(RatSub(C4_ExpectedAgi, R(StdDed(filing_status))), Zero)

\* C4 witness: a run with an AGI-reducing contribution, a Roth and an employer
\* contribution, and a 529 Plan contribution above the cap
C4_Witness ==
    /\ InRun
    /\ gross_salary = 150000 /\ pension_percent = 5
    /\ Get(contributions, "403(b) Traditional", 0) = 23500
    /\ Get(contributions, "Roth IRA", 0) = 5000
    /\ Get(contributions, "401(a) Employer", 0) = 2000
    /\ Get(contributions, "529 Plan", 0) = 6000
    /\ agi = R(150000 - 7500 - 23500 - 4000)

\* C5: gross salary 150000, Single, pension rate 0.05, a 403(b) Traditional
\* contribution of 23500 and nothing else: AGI 119000, taxable income 104000,
\* federal tax 17807.00, state tax 5722.50, total tax 23529.50.
C5_Scenario ==
    /\ gross_salary = 150000
    /\ filing_status = "Single"
    /\ pension_percent = 5
    /\ contributions = ("403(b) Traditional" :> 23500)

C5_EndToEnd ==
    (InRun /\ C5_Scenario) =>
        /\ agi = R(119000)
        /\ taxable_income = R(104000)
        /\ federal_tax = R(17807)
        /\ state_tax = Rat(572250, 100)
        /\ total_tax = Rat(2352950, 100)

\* C5 witness: the scenario's run has computed its taxes
C5_Witness == InRun /\ C5_Scenario /\ total_tax = Rat(47059, 2)

\* C9: a milestone whose target is <= the starting total (the sum of the
\* starting balances, before year 1) has crossing time 0 from before the first
\* simulated year to the end of the run, also when the total falls below the
\* target and rises through it again.
C9_InitialCondition ==
    InRun =>
        \A i \in 1..Len(milestone_defs) :
            RatLeq(milestone_defs[i][2], StartingTotal)
                => milestone_eta[milestone_defs[i][1]] = Zero

\* C9 witness: a year in which the total rises through a target that the
\* starting total had already met
C9_Witness ==
    /\ InRun /\ year >= 2
    /\ \E i \in 1..Len(milestone_defs) :
          /\ RatLeq(milestone_defs[i][2], StartingTotal)
          /\ RatLess(prev_total, milestone_defs[i][2])
          /\ RatLeq(milestone_defs[i][2], total_balance)
          /\ milestone_eta[milestone_defs[i][1]] = Zero

\* C10: the loop runs years 1..sim_years, sim_years = max(1, min(50,
\* sim_until_age - current_age)), one total recorded per year; every step of
\* the loop is the next year while a year is left and the end of the run once
\* none is, so the run is over after exactly sim_years years; when it has
\* ended, a milestone whose target was met neither by the starting total nor
\* by any end-of-year total has crossing time None, which is displayed as
\* "> capped horizon".
C10_ExpectedYears ==
    LET gap == sim_until_age - current_age
    IN  IF gap < 1 THEN 1 ELSE IF gap > 50 THEN 50 ELSE gap

C10_NeverMet(T) ==
    /\ RatLess(StartingTotal, T)
    /\ \A i \in 1..Len(balances) : RatLess(balances[i], T)

C10_Years ==
    /\ InRun =>
          /\ sim_years = C10_ExpectedYears
          /\ year <= sim_years
          /\ years = [i \in 1..year |-> i]
          /\ Len(balances) = year
    /\ pc = "shown" =>
          /\ year = sim_years
          /\ \A i \in 1..Len(milestone_defs) :
                C10_NeverMet(milestone_defs[i][2]) =>
                    /\ IsNone(milestone_eta[milestone_defs[i][1]])
                    /\ format_eta_decimal(milestone_eta[milestone_defs[i][1]])
                           = <<"> capped horizon">>

C10_Step ==
    pc = "loop" =>
        \/ year < sim_years /\ year' = year + 1 /\ pc' = "loop"
        \/ year = sim_years /\ year' = year /\ pc' = "shown"

Returned == call_pc = "returned"

\* rate_i * max(0, min(x, next threshold) - threshold_i)
SliceTax(x, b, i) ==
    LET upper == IF i = Len(b) THEN x
                 ELSE IF RatLess(R(b[i + 1][1]), x) THEN R(b[i + 1][1]) ELSE x
        width == RatSub(upper, R(b[i][1]))
    IN  IF RatLess(Zero, width) THEN RatMul(b[i][2], width) ELSE Zero

\* C3: for a taxable income x > 0 and a valid bracket table the tax is the sum
\* over the brackets of rate_i * max(0, min(x, next threshold_i) - threshold_i),
\* the last bracket unbounded above; the result is >= 0.
C3_SliceSum ==
    (Returned /\ ValidBrackets(call_brackets) /\ RatLess(Zero, call_taxable)) =>
        /\ call_tax = RatSum([i \in 1..Len(call_brackets) |->
                                 SliceTax(call_taxable, call_brackets, i)])
        /\ ~RatLess(call_tax, Zero)

\* C3 witness: an income in the fourth federal bracket, four slices taxed
C3_Witness ==
    /\ Returned
    /\ call_brackets = FEDERAL_BRACKETS_2025_SINGLE
    /\ call_taxable = R(104000)
    /\ call_tax = R(17807)

\* C6: on a valid bracket table (the three shipped tables among them) a larger
\* taxable income never has a smaller tax.
C6_Monotone ==
    (Returned /\ ValidBrackets(call_brackets)) =>
        \A y \in IncomesFor(call_brackets) :
            RatLeq(call_taxable, y) =>
                RatLeq(call_tax, calculate_tax(y, call_brackets))

\* C6 witness: a positive income on a shipped table with a larger income, two
\* brackets up, that is taxed more
C6_Witness ==
    /\ Returned
    /\ call_brackets = VIRGINIA_BRACKETS_2025
    /\ call_taxable = R(2999)
    /\ RatLess(Zero, call_tax)
    /\ RatLess(call_tax, calculate_tax(R(5001), call_brackets))

\* C7: the tax has no jump at a threshold t of a valid table: for x in the
\* bracket just below t, tax(t) - tax(x) = rate below * (t - x), and for x in
\* the bracket starting at t, tax(x) - tax(t) = rate at t * (x - t).
C7_Continuous ==
    (Returned /\ ValidBrackets(call_brackets)) =>
        \A i \in 1..Len(call_brackets) :
            LET t == R(call_brackets[i][1])
                at_t == calculate_tax(t, call_brackets)
            IN  /\ (/\ i >= 2
                    /\ RatLeq(R(call_brackets[i - 1][1]), call_taxable)
                    /\ RatLeq(call_taxable, t))
                   => RatSub(at_t, call_tax)
                          = RatMul(call_brackets[i - 1][2], RatSub(t, call_taxable))
                /\ (/\ RatLeq(t, call_taxable)
                    /\ RatLeq(call_taxable, BracketEnd(call_brackets, i)))
                   => RatSub(call_tax, at_t)
                          = RatMul(call_brackets[i][2], RatSub(call_taxable, t))

\* C7 witness: half a dollar below the last Virginia threshold, the tax half a
\* dollar's 5% short of the tax at the threshold
C7_Witness ==
    /\ Returned
    /\ call_brackets = VIRGINIA_BRACKETS_2025
    /\ call_taxable = Rat(33999, 2)
    /\ RatSub(calculate_tax(R(17000), call_brackets), call_tax) = Rat(5, 200)

\* C8: for a taxable income <= 0 the tax is exactly 0.0, whatever the table.
C8_NonPositive ==
    (Returned /\ RatLeq(call_taxable, Zero)) => call_tax = Zero

\* C8 witness: a negative income above the first threshold of a table that
\* starts below zero
C8_Witness ==
    /\ Returned
    /\ Len(call_brackets) >= 1
    /\ call_brackets[1][1] = -2
    /\ call_taxable = R(-1)
    /\ call_tax = Zero

\* ------------------------------------------------------------ properties of the totals
\* every account return is >= lowest and every contribution is >= 0
C11_Inputs(lowest) ==
    /\ \A a \in DOMAIN portfolio : RatLeq(lowest, portfolio[a].return)
    /\ \A a \in DOMAIN contributions : contributions[a] >= 0

\* the total after every simulated year is >= the total before it, the
\* starting total before year 1
C11_NonDecreasing ==
    \A i \in 1..Len(balances) :
        RatLeq(IF i = 1 THEN StartingTotal ELSE balances[i - 1], balances[i])

\* C11 as claimed: with all returns >= -1 and all contributions >= 0 the total
\* never decreases from one year to the next.
C11_AsClaimed == (InRun /\ C11_Inputs(R(-1))) => C11_NonDecreasing

\* C11: with all returns >= 0 and all contributions >= 0 the total never
\* decreases from one year to the next, nor from the starting total to the
\* total after year 1.
C11_TotalNonDecreasing == (InRun /\ C11_Inputs(Zero)) => C11_NonDecreasing

\* C11 witness: two years of an 8% portfolio with a contribution, the total
\* strictly larger after each
C11_Witness ==
    /\ InRun /\ year >= 2
    /\ C11_Inputs(Zero)
    /\ \E a \in DOMAIN portfolio :
          RatLess(Zero, portfolio[a].return) /\ RatLess(Zero, portfolio[a].balance)
    /\ \E a \in DOMAIN contributions : contributions[a] > 0
    /\ RatLess(StartingTotal, balances[1])
    /\ RatLess(balances[1], balances[2])

\* ------------------------------------------------------------ properties of the snapshots
\* the per-account balances recorded at the end of simulated year y
C12_BalancesAfter(y) == [a \in DOMAIN portfolio |-> account_history[a][y]]

\* a checkpoint snapshot: None before its year, the balances at the end of
\* that year from then on
C12_TakenAt(snap, y) ==
    IF year >= y THEN snap = Some(C12_BalancesAfter(y)) ELSE IsNone(snap)

C13_YearsAtFullFi == {i \in 1..Len(balances) : RatLeq(base_full_fi, balances[i])}

C13_FirstYear == CHOOSE y \in C13_YearsAtFullFi : \A z \in C13_YearsAtFullFi : y <= z

\* C13: full_fi_first_year is the smallest simulated year whose end-of-year
\* total is >= the Full-FI target and snapshot_full_fi the balances at the end
\* of that year, whatever the later years do; both are None while no
\* simulated year has reached the target.
C13_FirstFullFi ==
    InRun =>
        IF C13_YearsAtFullFi = {}
        THEN IsNone(full_fi_first_year) /\ IsNone(snapshot_full_fi)
        ELSE /\ full_fi_first_year = Some(C13_FirstYear)
             /\ snapshot_full_fi = Some(C12_BalancesAfter(C13_FirstYear))

\* C13 witness: Full FI reached in year 1 and again in a later year, the
\* records still those of year 1
C13_Witness ==
    /\ InRun /\ year >= 2
    /\ year \in C13_YearsAtFullFi
    /\ full_fi_first_year = Some(1)
    /\ snapshot_full_fi = Some(C12_BalancesAfter(1))
    /\ snapshot_full_fi # Some(Snapshot(portfolio))

\* ------------------------------------------------------------ properties of the real values
\* nominal / (1 + cpi)^y
C14_Deflated(nominal, y) ==
    [nominal |-> nominal,
     base |-> RatAdd(One, RatDiv(inflation_percent, R(100))),
     exponent |-> y]

\* a real snapshot against its nominal snapshot taken at the end of year y:
\* every account balance deflated over y years, nothing where nothing was taken
C14_RealOf(real, nominal, y) ==
    IF IsNone(nominal) THEN IsNone(real)
    ELSE \A a \in DOMAIN nominal[1] :
            /\ ~IsNone(real)
            /\ DOMAIN real[1] = DOMAIN nominal[1]
            /\ real[1][a] = C14_Deflated(nominal[1][a], y)

\* the year at whose end the stored snapshot_at_ret was taken
C14_RetYearTaken == IF year >= years_until_ret THEN years_until_ret ELSE year

\* C14: in the stored result real_balances[y] is balances[y] / (1 + cpi)^y
\* for every simulated year y, and each real snapshot deflates every account
\* balance of its nominal snapshot over the years after which that snapshot
\* was taken: 5, 10, the year of snapshot_at_ret, the first Full-FI year.
C14_Deflation ==
    pc = "shown" =>
        /\ ~IsNone(sim)
        /\ Len(sim[1].real_balances) = sim_years
        /\ \A y \in 1..sim_years :
              sim[1].real_balances[y] = C14_Deflated(balances[y], y)
        /\ snapshot_at_ret = Some(C12_BalancesAfter(C14_RetYearTaken))
        /\ C14_RealOf(sim[1].real_snapshot_at_ret, snapshot_at_ret, C14_RetYearTaken)
        /\ C14_RealOf(sim[1].real_snapshot_5yr, snapshot_5yr, 5)
        /\ C14_RealOf(sim[1].real_snapshot_10yr, snapshot_10yr, 10)
        /\ C14_RealOf(sim[1].real_snapshot_full_fi, snapshot_full_fi,
                      IF IsNone(full_fi_first_year) THEN 0 ELSE C13_FirstYear)

\* C14 witness: a stored result of 50 years with all four real snapshots,
\* Full FI first reached in a year that is no other checkpoint
C14_Witness ==
    /\ pc = "shown" /\ sim_years = 50 /\ years_until_ret = 2
    /\ ~IsNone(sim)
    /\ ~IsNone(sim[1].real_snapshot_5yr)
    /\ ~IsNone(sim[1].real_snapshot_10yr)
    /\ ~IsNone(sim[1].real_snapshot_full_fi)
    /\ ~IsNone(full_fi_first_year)
    /\ full_fi_first_year[1] \notin {2, 5, 10}
    /\ \E a \in DOMAIN portfolio :
          /\ sim[1].real_snapshot_at_ret[1][a].exponent = 2
          /\ sim[1].real_snapshot_full_fi[1][a].exponent = full_fi_first_year[1]
          /\ sim[1].real_snapshot_full_fi[1][a].nominal
                 = account_history[a][full_fi_first_year[1]]

\* ------------------------------------------------------------ properties of the targets
\* annual_expenses * (hundredths / 100) / swr, swr = swr_percent / 100
C15_Target(hundredths) ==
    RatDiv(Rat(annual_expenses * hundredths, 100), RatDiv(swr_percent, R(100)))

C15_TargetsAsStated(defs) ==
    /\ TargetOf(defs, "Lean FI (75% Expenses)") = C15_Target(75)
    /\ TargetOf(defs, "Full FI (100% Expenses)") = C15_Target(100)
    /\ TargetOf(defs, "Chubby FI (~120% Expenses)") = C15_Target(120)
    /\ TargetOf(defs, "Fat FI (150% Expenses)") = C15_Target(150)
    /\ TargetOf(defs, "Obese FI (200% Expenses)") = C15_Target(200)
    /\ TargetOf(defs, "Barista FI (covers ~50% of expenses)") = C15_Target(50)
    /\ TargetOf(defs, "Flamingo FI (50% of FI #)")
           = RatDiv(TargetOf(defs, "Full FI (100% Expenses)"), R(2))
    /\ (annual_expenses = 40000 /\ swr_percent = R(4)) =>
           /\ TargetOf(defs, "Full FI (100% Expenses)") = R(1000000)
           /\ TargetOf(defs, "Lean FI (75% Expenses)") = R(750000)
           /\ TargetOf(defs, "Fat FI (150% Expenses)") = R(1500000)

C15_InRun ==
    /\ InRun => C15_TargetsAsStated(milestone_defs)
    /\ pc = "shown" => C15_TargetsAsStated(sim[1].milestone_defs)

C15_Step == pc = "loop" => milestone_defs' = milestone_defs

\* C15: the milestone targets of a run are annual_expenses * multiplier / swr
\* with multipliers Lean 0.75, Full 1.00, Chubby 1.20, Fat 1.50, Obese 2.00,
\* Barista 0.50 and Flamingo half of Full (1,000,000 / 750,000 / 1,500,000 for
\* Full / Lean / Fat at expenses 40000 and swr 0.04); they are set before the
\* loop, no step of the loop changes them, and the stored result holds them.
C15_Targets == []C15_InRun /\ [][C15_Step]_vars

\* C15 witness: the run of the example, after a simulated year
C15_Witness ==
    /\ InRun /\ year >= 1
    /\ annual_expenses = 40000 /\ swr_percent = R(4)
    /\ TargetOf(milestone_defs, "Full FI (100% Expenses)") = R(1000000)
    /\ TargetOf(milestone_defs, "Lean FI (75% Expenses)") = R(750000)
    /\ TargetOf(milestone_defs, "Fat FI (150% Expenses)") = R(1500000)

\* max(1, target_age - current_age)
C16_Years == IF target_age - current_age < 1 THEN 1 ELSE target_age - current_age

\* full_fi_target / (1 + 0.08)^years, one division by 1.08 per year
RECURSIVE C16_Discounted(_, _)
C16_Discounted(v, n) ==
    IF n = 0 THEN v ELSE C16_Discounted(RatDiv(v, Rat(108, 100)), n - 1)

C16_CoastTarget == TargetOf(milestone_defs, "Coast FI")

C16_InRun ==
    InRun => C16_CoastTarget = C16_Discounted(C15_Target(100), C16_Years)

\* the steps of a run, as they treat the Coast-FI milestone
C16_Step ==
    /\ (pc = "idle" /\ pc' = "loop") =>
          milestone_eta'["Coast FI"] =
              IF RatLeq(TargetOf(milestone_defs', "Coast FI"), StartingTotal)
              THEN Zero ELSE None
    /\ pc = "loop" => TargetOf(milestone_defs', "Coast FI") = C16_CoastTarget
    /\ (pc = "loop" /\ year' = year + 1) =>
          LET prev == Total(portfolio)
              total == Total(portfolio')
              T == C16_CoastTarget
          IN  IF /\ IsNone(milestone_eta["Coast FI"])
                 /\ RatLess(prev, T) /\ RatLeq(T, total)
              THEN /\ ~IsNone(milestone_eta'["Coast FI"])
                   /\ RatMul(RatSub(milestone_eta'["Coast FI"], R(year)),
                             C2_Span(prev, total)) = RatSub(T, prev)
              ELSE milestone_eta'["Coast FI"] = milestone_eta["Coast FI"]

NormReturned == norm_pc = "returned"

\* C17: whatever the input (None, a string, a number, a percentage, NaN, an
\* infinity), the value normalize_return returns is a number in [-0.90, 2.00].
C17_InRange ==
    NormReturned =>
        /\ Len(norm_result) = 2
        /\ IsFinite(norm_result)
        /\ RatLeq(Rat(-90, 100), norm_result)
        /\ RatLeq(norm_result, Rat(200, 100))

\* C17 witness: a NaN went in and 2.00 came out
C17_Witness == NormReturned /\ norm_arg = NaN /\ norm_result = R(2)

\* the clamp to [-0.90, 2.00]
C18_Clamp(x) ==
    IF RatLess(x, Rat(-9, 10)) THEN Rat(-9, 10)
    ELSE IF RatLess(R(2), x) THEN R(2) ELSE x

\* C18: a finite numeric input x is divided by 100 once exactly when
\* x > 1.5, and then clamped: the result is clamp(x / 100) for x > 1.5 and
\* clamp(x) otherwise; 30 gives 0.30, 0.30 gives 0.30, 1.5 gives 1.5, 500
\* gives 2.00, -200 gives -0.90, and 180 gives 1.8, not divided again.
C18_DivideOnce ==
    (NormReturned /\ Len(norm_arg) = 2 /\ IsFinite(norm_arg)) =>
        /\ norm_result = C18_Clamp(IF RatLess(Rat(3, 2), norm_arg)
                                   THEN RatDiv(norm_arg, R(100)) ELSE norm_arg)
        /\ norm_arg = R(30) => norm_result = Rat(3, 10)
        /\ norm_arg = Rat(3, 10) => norm_result = Rat(3, 10)
        /\ norm_arg = Rat(3, 2) => norm_result = Rat(3, 2)
        /\ norm_arg = R(500) => norm_result = R(2)
        /\ norm_arg = R(-200) => norm_result = Rat(-9, 10)
        /\ norm_arg = R(180) => norm_result = Rat(18, 10)

\* C18 witness: 180 came back as 1.8, a quotient above 1.5
C18_Witness == NormReturned /\ norm_arg = R(180) /\ norm_result = Rat(9, 5)

\* the strings of NormStrings that spell no number
C19_NotNumeric == {"", "abc", "8%"}

\* C19: no call of normalize_return ends in an exception, and for None and
\* for an input that float() cannot convert the value returned is 0.0.
C19_FailsSoft ==
    /\ norm_pc # "raised"
    /\ (NormReturned /\ IsNone(norm_arg)) => norm_result = Zero
    /\ (NormReturned /\ Len(norm_arg) = 1 /\ norm_arg[1] \in C19_NotNumeric)
           => norm_result = Zero

\* C19 witness: a string that is no number came back as 0.0
C19_Witness == NormReturned /\ norm_arg = <<"abc">> /\ norm_result = Zero

\* ------------------------------------------------------------ properties of the SWR check
\* C20: a run started with swr <= 0 shows the error and stops there: no
\* milestone target is computed (no division by swr), no year is simulated,
\* no result is stored, and nothing of the run follows the stop.
C20_Refused ==
    (pc # "idle" /\ RatLeq(RatDiv(swr_percent, R(100)), Zero)) =>
        /\ pc = "stopped"
        /\ ~IsNone(error_msg)
        /\ milestone_defs = <<>> /\ milestone_eta = NoDict
        /\ year = 0 /\ years = <<>> /\ balances = <<>>
        /\ sim = None

C20_SwrCheck == []C20_Refused /\ [][pc # "stopped"]_vars

\* C20 witness: a run started with an SWR of exactly 0 has stopped with the
\* error, its taxes computed and nothing projected
C20_Witness ==
    /\ swr_percent = Zero
    /\ pc = "stopped"
    /\ error_msg = Some("Safe Withdrawal Rate must be > 0%.")
    /\ ~IsNone(total_tax)
    /\ milestone_defs = <<>> /\ balances = <<>> /\ sim = None

\* ------------------------------------------------------------ properties of the warnings
\* the contributions each entry of the hints mapping governs
C21_Governed ==
    ("IRA (Traditional/Roth) combined" :> {"Traditional IRA", "Roth IRA"})
    @@ ("457(b) employee deferral" :> {"457(b) Traditional", "457(b) Roth"})
    @@ ("403(b) employee deferral" :> {"403(b) Traditional", "403(b) Roth"})
    @@ ("HSA (family)" :> {"HSA"})
    @@ ("FSA (health)" :> {"FSA"})
    @@ ("415(c) overall DC limit" :>
            {"403(b) Traditional", "403(b) Roth", "401(a) Employee",
             "401(a) Employer", "Solo 401(k) Employee", "SEP IRA"})
    @@ ("529 (VA deduction hint)" :> {"529 Plan"})

\* the stored warning list names the amount and the limit of hint key
C21_Warned(key) ==
    \E i \in 1..Len(sim[1].warn_msgs) :
        /\ Len(sim[1].warn_msgs[i]) = 3
        /\ sim[1].warn_msgs[i][2] = IntSum(contributions, C21_Governed[key])
        /\ sim[1].warn_msgs[i][3] = hints[key]

\* C21: in a finished run, for every entry of the hints mapping (IRA
\* combined, 457(b), 403(b), HSA, FSA, 415(c) overall, 529) whose governed
\* contribution exceeds the limit, the stored warning list holds a warning
\* for it, and the run has completed with its tax and projection outputs.
C21_AsClaimed ==
    pc = "shown" =>
        /\ ~IsNone(sim)
        /\ sim[1].total_tax = RunTotalTax
        /\ Len(sim[1].balances) = SimYears
        /\ \A key \in DOMAIN hints :
              IntSum(contributions, C21_Governed[key]) > hints[key]
                  => C21_Warned(key)

\* the advisory text of a negative disposable income
C22_Advisory == <<"Post-tax savings > after-tax income (negative disposable).">>

C22_InList(msgs, m) == \E i \in 1..Len(msgs) : msgs[i] = m

\* C22: in a finished run whose post-tax savings exceed the after-tax income
\* the stored warning list holds the advisory, and the stored
\* disposable_income is after_tax_income - post_tax_savings itself, a negative
\* number; only the chart's values are clamped: with_disposable is that
\* difference less the elective pre-tax contributions, cut off at 0, and
\* base_disposable is not negative either.
C22_Unclamped ==
    (pc = "shown" /\ RatLess(sim[1].after_tax_income, R(sim[1].post_tax_savings))) =>
        /\ C22_InList(sim[1].warn_msgs, C22_Advisory)
        /\ sim[1].disposable_income
               = RatSub(sim[1].after_tax_income, R(sim[1].post_tax_savings))
        /\ RatLess(sim[1].disposable_income, Zero)
        /\ LET inner == RatSub(sim[1].disposable_income,
                               R(IntSum(contributions, agi_reducing_accounts)))
           IN  with_disposable = IF RatLess(inner, Zero) THEN Zero ELSE inner
        /\ RatLeq(Zero, base_disposable)

\* C22 witness: a finished run with a stored disposable income below
\* -140,000, the advisory stored, and the chart's slice at 0
C22_Witness ==
    /\ pc = "shown"
    /\ RatLess(sim[1].disposable_income, R(-140000))
    /\ C22_InList(sim[1].warn_msgs, C22_Advisory)
    /\ with_disposable = Zero
    /\ RatLess(Zero, base_disposable)

\* ------------------------------------------------------------ properties of the crossing times
\* a <= b for two crossing times, compared over their common denominator
C24_NotLater(a, b) ==
    LET fa == Floor(a)
        fb == Floor(b)
        g == GCD(a[2], b[2])
    IN  IF fa # fb THEN fa < fb
        ELSE (a[1] - fa * a[2]) * (b[2] \div g) <= (b[1] - fb * b[2]) * (a[2] \div g)

\* C24: in a run, for any two milestones with targets T1 <= T2: if T2 has a
\* crossing time then T1 has one too, and it is not later; this holds for
\* every combination of returns and contributions, also through years in
\* which the total falls.
C24_Ordered ==
    InRun =>
        \A i, j \in 1..Len(milestone_defs) :
            LET n1 == milestone_defs[i][1]
                n2 == milestone_defs[j][1]
            IN  (/\ RatLeq(milestone_defs[i][2], milestone_defs[j][2])
                 /\ ~IsNone(milestone_eta[n2]))
                => /\ ~IsNone(milestone_eta[n1])
                   /\ C24_NotLater(milestone_eta[n1], milestone_eta[n2])

\* C24 witness: with 200,000 a year into the falling account the total fell
\* in year 1 (1,050,000 to 950,000), and year 3 (1,125,000 to 1,662,500)
\* crossed Chubby FI (1,200,000) at 2 6/43 and Fat FI (1,500,000) at 2 30/43;
\* Full FI was met from the start, Obese FI is not reached
C24_Witness ==
    /\ pc = "shown" /\ sim_years = 3
    /\ StartingTotal = R(1050000)
    /\ balances[1] = R(950000)
    /\ milestone_eta["Full FI (100% Expenses)"] = Zero
    /\ milestone_eta["Chubby FI (~120% Expenses)"] = Rat(92, 43)
    /\ milestone_eta["Fat FI (150% Expenses)"] = Rat(116, 43)
    /\ IsNone(milestone_eta["Obese FI (200% Expenses)"])

\* ------------------------------------------------------------ properties of the Full-FI records
C25_FullFi == "Full FI (100% Expenses)"

\* the Full-FI target of the run: annual_expenses / swr
C25_Target == RatDiv(R(annual_expenses), RatDiv(swr_percent, R(100)))

\* first_year - 1 < eta <= first_year
C25_Within(eta, first_year) ==
    /\ Floor(eta) >= first_year - 1
    /\ eta # R(first_year - 1)
    /\ \/ Floor(eta) < first_year
       \/ eta = R(first_year)

\* the stored years whose end total is at or above the Full-FI target
C25_YearsAtTarget ==
    {y \in 1..Len(sim[1].balances) : RatLeq(C25_Target, sim[1].balances[y])}

\* C25 as stated: at the end of every run the Full-FI milestone has a
\* crossing time if and only if full_fi_first_year (and snapshot_full_fi) is
\* set, and when both are set the crossing time lies in
\* (full_fi_first_year - 1, full_fi_first_year].
C25_AsClaimed ==
    pc = "shown" =>
        LET eta == sim[1].milestone_eta[C25_FullFi]
            first == sim[1].full_fi_first_year
        IN  /\ ~IsNone(eta) <=> ~IsNone(first)
            /\ ~IsNone(first) <=> ~IsNone(sim[1].snapshot_full_fi)
            /\ (~IsNone(eta) /\ ~IsNone(first)) => C25_Within(eta, first[1])

\* C25, amended: at the end of every run snapshot_full_fi is set exactly when
\* full_fi_first_year is.  With a starting total below the Full-FI target the
\* milestone has a crossing time if and only if full_fi_first_year is set,
\* and then the crossing time lies in (full_fi_first_year - 1,
\* full_fi_first_year].  With a starting total at or above the target the
\* crossing time is 0.0, and full_fi_first_year is the first simulated year
\* whose end total is at or above the target, None when there is none.
C25_Agree ==
    pc = "shown" =>
        LET eta == sim[1].milestone_eta[C25_FullFi]
            first == sim[1].full_fi_first_year
        IN  /\ ~IsNone(first) <=> ~IsNone(sim[1].snapshot_full_fi)
            /\ IF RatLess(StartingTotal, C25_Target)
               THEN /\ ~IsNone(eta) <=> ~IsNone(first)
                    /\ ~IsNone(first) => C25_Within(eta, first[1])
               ELSE /\ eta = Zero
                    /\ IF C25_YearsAtTarget = {} THEN IsNone(first)
                       ELSE /\ ~IsNone(first)
                            /\ first[1] \in C25_YearsAtTarget
                            /\ \A y \in C25_YearsAtTarget : first[1] <= y

\* C25 witness: a run that starts below the target and crosses it halfway
\* through year 1, and goes on for two more years
C25_Witness ==
    /\ pc = "shown" /\ sim_years = 3
    /\ RatLess(StartingTotal, C25_Target)
    /\ sim[1].full_fi_first_year = Some(1)
    /\ sim[1].milestone_eta[C25_FullFi] = Rat(1, 2)
    /\ ~IsNone(sim[1].snapshot_full_fi)

\* ------------------------------------------------------------ properties of a session
\* C23: when the projection is run again on the same inputs, the result
\* stored is the result already stored: the same series, crossing times,
\* snapshots and tax scalars.  Every run starts from the portfolio built from
\* the inputs, not from balances an earlier run has grown.
C23_RunStartsFresh ==
    (pc = "loop" /\ year = 0) =>
        /\ Total(portfolio) = StartingTotal
        /\ \A a \in DOMAIN account_start_balances :
              RatLess(Zero, account_start_balances[a])
                  => portfolio[a].balance = account_start_balances[a]

C23_SameResult ==
    /\ [][~IsNone(sim) => sim' = sim]_vars
    /\ []C23_RunStartsFresh

\* C23 witness: a second run, on a portfolio whose balances move, has
\* simulated its last year while the result of the first is still stored,
\* and its series is the stored one
C23_Witness ==
    /\ pc = "loop" /\ year = sim_years /\ sim_years = 3
    /\ ~IsNone(sim)
    /\ Total(portfolio) # StartingTotal
    /\ balances = sim[1].balances
    /\ milestone_eta = sim[1].milestone_eta
    /\ total_tax = sim[1].total_tax

\* the steps of a session, as they treat the stored result
C26_Step ==
    /\ sim' # sim =>
          /\ pc = "loop" /\ pc' = "shown" /\ year = sim_years
          /\ RatLess(Zero, RatDiv(swr_percent, R(100)))
          /\ ~IsNone(sim')
    /\ (pc = "loop" /\ pc' = "shown") =>
          /\ ~IsNone(sim')
          /\ sim'[1].balances = balances
          /\ sim'[1].milestone_eta = milestone_eta
          /\ sim'[1].total_tax = total_tax
          /\ sim'[1].swr = RatDiv(swr_percent, R(100))
    /\ pc' \in {"idle", "viewed", "stopped"} => sim' = sim
    /\ pc' = "loop" => pc \in {"idle", "loop"}

\* C26: over any sequence of script runs (inputs edited, Run clicked or not)
\* st.session_state["sim"] is None until a run completes; only the end of a
\* run that was clicked and passed the SWR check replaces it, by that run's
\* result; a script run without a click and a run halted by the SWR check
\* leave it as it was.
C26_Persisted ==
    /\ [](pc = "shown" => ~IsNone(sim))
    /\ [](IsNone(sim) \/ RatLess(Zero, sim[1].swr))
    /\ [][C26_Step]_vars

\* C26 witness: a run halted by the SWR check, after an edit of the SWR to
\* -1%, with the result of the run before at 4% still stored
C26_Witness ==
    /\ pc = "stopped"
    /\ swr_percent = R(-1)
    /\ ~IsNone(sim)
    /\ sim[1].swr = Rat(4, 100)
    /\ sim[1].sim_years = 3

\* C27: after any sequence of input edits and Run clicks, whenever the
\* result tabs show a stored result, the "Estimated tax saved" of every
\* AGI-reducing account or 529 Plan with a positive contribution (the total
\* tax recomputed with that contribution set to 0, less the stored total
\* tax) is not negative.
C27_NeverNegative ==
    (pc \in {"shown", "viewed"} /\ ~IsNone(sim)) =>
        \A acct \in impact_accounts : ~RatLess(delta_tax(acct), Zero)

====
